---- MODULE Spec2Model ----
(***************************************************************************)
(* PostgresRawConnection (src/src/postgres/connection/mod.rs): one socket, *)
(* a write buffer of encoded frontend frames, a read buffer of raw backend *)
(* bytes, the receive() decode loop, flush(), finalize(), establish() and  *)
(* the three query entry points that share finish().                       *)
(*                                                                         *)
(* The write side is kept at frame granularity (one element of wbuf is one *)
(* encoded frontend frame); the read side is kept at byte granularity, so  *)
(* that a backend message may span several socket reads.                   *)
(*                                                                         *)
(* The asynchronous functions are cut at their suspension points: one      *)
(* action runs the code from one completed await to the next pending one.  *)
(***************************************************************************)
EXTENDS Integers, Sequences, FiniteSets, TLC

\* ------------------------------------------------------------------ bounds
MaxRows == 2        \* a query produces 0..MaxRows rows
MaxCalls == 2       \* query operations started on one connection

\* ------------------------------------------------------- program constants
I16Max == 32767     \* `as i16` in finish()
DefaultPort == 5432

\* ---------------------------------------------------------------- helpers
Min(a, b) == IF a < b THEN a ELSE b

IsPrefix(s, t) == Len(s) <= Len(t) /\ SubSeq(t, 1, Len(s)) = s

RECURSIVE Flatten(_)
Flatten(ss) == IF ss = <<>> THEN <<>> ELSE Head(ss) \o Flatten(Tail(ss))

\* --------------------------------------------------- backend message codec
\* One backend message on the wire: tag byte, 4-byte big-endian length (it
\* counts itself, not the tag), payload.
Tag == [ParameterStatus |-> 83, ErrorResponse |-> 69, NoticeResponse |-> 78,
        DataRow |-> 68, CommandComplete |-> 67, ReadyForQuery |-> 90,
        BackendKeyData |-> 75, PortalSuspended |-> 115]

SevError == 69
SevNotice == 78

BE32(n) == << (n \div 16777216) % 256, (n \div 65536) % 256, (n \div 256) % 256, n % 256 >>

FromBE32(b) == b[1] * 16777216 + b[2] * 65536 + b[3] * 256 + b[4]

Msg(kind, payload) == [kind |-> kind, payload |-> payload]

TagOf(m) ==
    IF m.kind = "Response"
    THEN (IF m.payload # <<>> /\ m.payload[1] = SevError
          THEN Tag.ErrorResponse ELSE Tag.NoticeResponse)
    ELSE Tag[m.kind]

KindOfTag(t) ==
    CASE t = Tag.ParameterStatus -> "ParameterStatus"
      [] t = Tag.ErrorResponse   -> "Response"
      [] t = Tag.NoticeResponse  -> "Response"
      [] t = Tag.DataRow         -> "DataRow"
      [] t = Tag.CommandComplete -> "CommandComplete"
      [] t = Tag.ReadyForQuery   -> "ReadyForQuery"
      [] t = Tag.BackendKeyData  -> "BackendKeyData"
      [] t = Tag.PortalSuspended -> "PortalSuspended"
      [] OTHER                   -> "Unknown"

\* The bytes the backend puts on the wire for one message.
WireBytes(m) == <<TagOf(m)>> \o BE32(4 + Len(m.payload)) \o m.payload

NoMsg == Msg("None", <<>>)

\* Message::decode: one complete message off the front of the buffer, or
\* nothing (buffer untouched) when the header or the body is incomplete.
Decode(buf) ==
    IF Len(buf) < 5
    THEN [some |-> FALSE, msg |-> NoMsg, rest |-> buf]
    ELSE LET len == FromBE32(SubSeq(buf, 2, 5)) IN
         IF len < 4 \/ Len(buf) < 1 + len
         THEN [some |-> FALSE, msg |-> NoMsg, rest |-> buf]
         ELSE [some |-> TRUE,
               msg  |-> Msg(KindOfTag(buf[1]), SubSeq(buf, 6, 1 + len)),
               rest |-> SubSeq(buf, 2 + len, Len(buf))]

\* ------------------------------------------------------- frontend frames
\* One element of wbuf is one encoded frontend frame.  A parameter list is
\* kept by its length only: types_len type identifiers and their values.
ParamCounts == {0, 2, I16Max + 1}

Params == [types_len : ParamCounts]

\* A query text is identified by what the backend answers to it.
Queries == [rows : 0..MaxRows, fails : {FALSE}] \cup {[rows |-> 0, fails |-> TRUE]}

Kinds == {"execute", "fetch", "fetch_optional"}

\* `len as i16`: the low 16 bits, read as a signed number.
ToI16(n) == LET m == n % 65536 IN IF m > I16Max THEN m - 65536 ELSE m

StartupFrame == [tag |-> "Startup"]

ParseFrame(query, params) ==
    [tag |-> "Parse", portal |-> "", query |-> query, param_types |-> params.types_len]

BindFrame(params) ==
    [tag |-> "Bind", portal |-> "", statement |-> "", formats |-> <<1>>,
     values_len |-> ToI16(params.types_len), values |-> params.types_len,
     result_formats |-> <<1>>]

ExecuteFrame(limit) == [tag |-> "Execute", portal |-> "", limit |-> limit]

SyncFrame == [tag |-> "Sync"]

TerminateFrame == [tag |-> "Terminate"]

Write_Replace(buf, frame) == << frame >>

\* write(): encode the message onto the end of the write buffer.
Write(buf, frame) == Append(buf, frame)

Finish_Nothing(buf, query, params, limit) == buf

\* finish(): Parse, Bind, Execute(limit), Sync.
Finish(buf, query, params, limit) ==
    Write(Write(Write(Write(buf, ParseFrame(query, params)),
                      BindFrame(params)),
                ExecuteFrame(limit)),
          SyncFrame)

LimitOf_AlwaysZero(kind) == 0

LimitOf_Two(kind) == IF kind = "fetch_optional" THEN 2 ELSE 0

\* The row limit each entry point hands to finish().
LimitOf(kind) == IF kind = "fetch_optional" THEN 1 ELSE 0

Flush_ClearOnError(buf, out, ok) ==
    IF ok
    THEN [res |-> "ok",  wbuf |-> <<>>, outq |-> out \o buf]
    ELSE [res |-> "err", wbuf |-> <<>>, outq |-> out]

Flush_NoClear(buf, out, ok) ==
    IF ok
    THEN [res |-> "ok",  wbuf |-> buf, outq |-> out \o buf]
    ELSE [res |-> "err", wbuf |-> buf, outq |-> out]

\* flush(): write_all, then clear; an I/O failure returns before the clear.
Flush(buf, out, ok) ==
    IF ok
    THEN [res |-> "ok",  wbuf |-> <<>>, outq |-> out \o buf]
    ELSE [res |-> "err", wbuf |-> buf,  outq |-> out]

Finalize_ShutdownAnyway(buf, out, flushOk, shutOk) ==
    LET f == Flush(Write(buf, TerminateFrame), out, flushOk) IN
    IF ~shutOk
    THEN [res |-> "shutdown_err", wbuf |-> f.wbuf, outq |-> f.outq, sock |-> "open", flush |-> f]
    ELSE [res |-> "ok", wbuf |-> f.wbuf, outq |-> f.outq, sock |-> "shutdown", flush |-> f]

\* finalize(): write(Terminate); flush()?; shutdown()?; Ok.
Finalize(buf, out, flushOk, shutOk) ==
    LET f == Flush(Write(buf, TerminateFrame), out, flushOk) IN
    IF f.res = "err"
    THEN [res |-> "flush_err", wbuf |-> f.wbuf, outq |-> f.outq, sock |-> "open", flush |-> f]
    ELSE IF ~shutOk
    THEN [res |-> "shutdown_err", wbuf |-> f.wbuf, outq |-> f.outq, sock |-> "open", flush |-> f]
    ELSE [res |-> "ok", wbuf |-> f.wbuf, outq |-> f.outq, sock |-> "shutdown", flush |-> f]

\* ------------------------------------------------------------- establish
HandshakeResult_Unchecked(hsRes) == "ok"

\* What establish() returns once the handshake has ended: `?` on its error.
HandshakeResult(hsRes) == IF hsRes = "ok" THEN "ok" ELSE "handshake_error"

\* What establish() does with the outcome of TcpStream::connect: `?`.
ConnectResult(connectOk) == IF connectOk THEN "connected" ELSE "io_error"

Hosts == {"", "127.0.0.1", "db.internal"}

Urls == [wellformed : BOOLEAN, host : Hosts, port : {0, DefaultPort}]

IpLiterals == {"127.0.0.1"}

\* Url::parse(..).unwrap(); host_str().unwrap_or("localhost");
\* port().unwrap_or(5432); host.parse::<IpAddr>().unwrap().
ParseAddr(url) ==
    IF ~url.wellformed
    THEN [res |-> "panic", host |-> "", port |-> 0]
    ELSE LET host == IF url.host = "" THEN "localhost" ELSE url.host
             port == IF url.port = 0 THEN DefaultPort ELSE url.port
         IN  IF host \in IpLiterals
             THEN [res |-> "ok", host |-> host, port |-> port]
             ELSE [res |-> "panic", host |-> host, port |-> port]

\* --------------------------------------------------------------- receive
\* The part of the connection receive() works on, threaded through the
\* loop as a record c:
\*   rbuf, readable, eof      the fields of PostgresRawConnection
\*   ret, msg                 what receive() does next: "some" (returns msg),
\*                            "none" (returns Ok(None)), "read" (awaits a
\*                            socket read), "err" (returns the I/O error)
\*   expect, sentHead, g, absorbedErr, didRead
\*                            bookkeeping of the verification, not program
\*                            state: the backend's messages not yet decoded,
\*                            the one taken last, what went wrong so far, and
\*                            whether this receive() call read from the socket
NoSent == [msg |-> NoMsg, owner |-> -1]

Absorbs_OnlyResponse(kind) == kind = "Response"

\* The messages the decode loop consumes without returning them.
Absorbs(kind) == kind \in {"ParameterStatus", "Response"}

\* Bookkeeping for one successful decode: d.rest becomes the buffer.
Took(c, d) ==
    LET sent == IF c.expect = <<>> THEN NoSent ELSE Head(c.expect) IN
    [c EXCEPT !.rbuf = d.rest,
              !.expect = IF c.expect = <<>> THEN <<>> ELSE Tail(c.expect),
              !.sentHead = sent,
              !.g.fault = c.g.fault \/ sent.msg # d.msg]

\* ParameterStatus / Response arms: nothing is done with the message.
Absorbed(c, m) ==
    [c EXCEPT !.g.swallowed = c.g.swallowed \/ ~Absorbs(c.sentHead.msg.kind),
              !.absorbedErr = c.absorbedErr
                              \/ (m.kind = "Response" /\ m.payload = <<SevError>>)]

\* Some(message) arm: return it.
Returned(c, m) ==
    [c EXCEPT !.ret = "some", !.msg = m,
              !.g.leaked = c.g.leaked \/ Absorbs(m.kind)]

\* None arm: "Not enough data in the read buffer to parse a message".
NoMessageYet(c) == [c EXCEPT !.readable = TRUE, !.ret = "read"]

\* The inner loop over Message::decode.
RECURSIVE DecodeLoop(_)
DecodeLoop(c) ==
    LET d == Decode(c.rbuf) IN
    IF ~d.some
    THEN NoMessageYet(c)
    ELSE IF Absorbs(d.msg.kind)
    THEN DecodeLoop(Absorbed(Took(c, d), d.msg))
    ELSE Returned(Took(c, d), d.msg)

ReceiveTop_NoEofCheck(c) ==
    IF c.readable
    THEN DecodeLoop(c)
    ELSE [c EXCEPT !.ret = "read"]

\* receive() from the top of its loop up to a return or the socket read.
ReceiveTop(c) ==
    IF c.eof
    THEN [c EXCEPT !.ret = "none", !.msg = NoMsg]
    ELSE IF c.readable
    THEN DecodeLoop(c)
    ELSE [c EXCEPT !.ret = "read"]

\* rbuf: BytesMut::with_capacity(1024 * 8); decoding takes capacity off the
\* front, so the spare room found by a receive() call is anything from 0 up.
RbufCapacity == 8192

ReadHeadroom == 32

SpareBefore == {0, ReadHeadroom, RbufCapacity}

Reserve_Nothing(spare) == spare

\* rbuf.reserve(32): afterwards at least 32 bytes are spare.
Reserve(spare) == IF spare >= ReadHeadroom THEN spare ELSE ReadHeadroom

Refill_FromStart(buf, data) == data

\* read into the spare region of rbuf, then advance_mut(n).
Refill(buf, data) == buf \o data

AfterRead_NotReadable(c, data) ==
    [c EXCEPT !.rbuf = Refill(c.rbuf, data),
              !.eof = IF Len(data) = 0 THEN TRUE ELSE c.eof,
              !.didRead = TRUE]

\* What follows a completed socket read of Len(data) bytes.
AfterRead(c, data) ==
    [c EXCEPT !.rbuf = Refill(c.rbuf, data),
              !.eof = IF Len(data) = 0 THEN TRUE ELSE c.eof,
              !.readable = TRUE,
              !.didRead = TRUE]

\* ------------------------------------------------- handshake and drivers
\* establish::establish, execute::execute, fetch::fetch and
\* fetch_optional::fetch_optional: each flushes, then calls receive() until
\* ReadyForQuery.  c.kind is the operation, c.ds its local state:
\*   call   its number (0: the handshake), count  rows affected (execute),
\*   rows   rows handed to the caller, first  the call whose answer the
\*   first message received belonged to (-1: none yet), res  the outcome.
NewDriver(call) ==
    [call |-> call, count |-> 0, rows |-> 0, first |-> -1, res |-> "pending"]

\* The operation's reaction to a message receive() returned.
DriverOn(c) ==
    LET m  == c.msg
        c1 == [c EXCEPT !.ds.first = IF c.ds.first = -1 THEN c.sentHead.owner
                                     ELSE c.ds.first,
                        !.lastRet = [ret |-> "some", call |-> c.ds.call, read |-> c.didRead],
                        !.pc = "recv"]
    IN
    IF m.kind = "ReadyForQuery"
    THEN [c1 EXCEPT !.pc = "done", !.ds.res = "ok"]
    ELSE IF m.kind = "DataRow" /\ c.kind = "fetch"
    THEN [c1 EXCEPT !.pc = "yielded", !.ds.rows = c.ds.rows + 1]
    ELSE IF m.kind = "DataRow" /\ c.kind = "fetch_optional"
    THEN [c1 EXCEPT !.ds.rows = 1]
    ELSE IF m.kind = "CommandComplete" /\ c.kind = "execute" /\ Len(m.payload) = 1
    THEN [c1 EXCEPT !.ds.count = m.payload[1]]
    ELSE IF m.kind = "BackendKeyData" /\ c.kind = "handshake" /\ Len(m.payload) = 2
    THEN [c1 EXCEPT !.pid = m.payload[1], !.key = m.payload[2]]
    ELSE c1

\* The operation's reaction to receive() returning Ok(None): the peer is
\* gone before ReadyForQuery, the operation fails.
DriverOnNone(c) ==
    [c EXCEPT !.pc = "done", !.ds.res = "error",
              !.lastRet = [ret |-> "none", call |-> c.ds.call, read |-> c.didRead]]

\* The operation's reaction to receive() returning the I/O error.
DriverOnErr(c) ==
    [c EXCEPT !.pc = "done", !.ds.res = "error", !.ret = "err",
              !.lastRet = [ret |-> "err", call |-> c.ds.call, read |-> TRUE]]

\* Run the operation from a receive() call to its next suspension point:
\* the socket read, a yielded row, or its end.
RECURSIVE Drive(_)
Drive(c) ==
    LET r == ReceiveTop(c) IN
    IF r.ret = "read" THEN [r EXCEPT !.pc = "read"]
    ELSE IF r.ret = "none" THEN DriverOnNone(r)
    ELSE LET h == DriverOn(r) IN
         IF h.pc = "recv" THEN Drive([h EXCEPT !.didRead = FALSE]) ELSE h

\* ---------------------------------------------------------------- backend
KeyData == [pid |-> 7, key |-> 9]

HandshakeAnswer(accept) ==
    IF accept
    THEN << Msg("ParameterStatus", <<1>>),
            Msg("Response", <<SevNotice>>),
            Msg("BackendKeyData", <<KeyData.pid, KeyData.key>>),
            Msg("ReadyForQuery", <<73>>) >>
    ELSE << Msg("Response", <<SevError>>) >>

\* What the backend answers to Parse/Bind/Execute(limit)/Sync of a query.
QueryAnswer(query, limit) ==
    LET n == IF limit > 0 THEN Min(limit, query.rows) ELSE query.rows IN
    (IF query.fails
     THEN << Msg("Response", <<SevError>>) >>
     ELSE [i \in 1..n |-> Msg("DataRow", <<>>)]
          \o (IF limit > 0 /\ query.rows > limit
              THEN << Msg("PortalSuspended", <<>>) >>
              ELSE << Msg("CommandComplete", <<query.rows>>) >>))
    \o << Msg("ReadyForQuery", <<73>>) >>

BytesOf(msgs) == Flatten([i \in 1..Len(msgs) |-> WireBytes(msgs[i])])

Owned(msgs, owner) == [i \in 1..Len(msgs) |-> [msg |-> msgs[i], owner |-> owner]]

\* ------------------------------------------------------------------ state
VARIABLES
    phase,            \* "new", "handshake", "ready", "finalized", "failed"
    estAddr,          \* what establish() made of its url
    estResult,        \* "pending", "ok", "panic", "io_error", "handshake_error"
    sock,             \* "none", "refused" (connect failed), "open", "shutdown"
    hs,               \* how the handshake ended: "none", "ok", "error"
    stream_readable, stream_eof, wbuf, rbuf, process_id, secret_key,
    op,               \* the operation in progress or last run: "none", "handshake",
                      \* "execute", "fetch", "fetch_optional"
    pc,               \* "idle", "created", "read", "yielded", "done", "dropped"
    ds,               \* the operation's local state
    nCalls,           \* query operations started so far
    finRes,           \* "pending", "ok", "flush_err", "shutdown_err"
    outq,             \* frames written to the socket, not yet read by the backend
    wire,             \* bytes sent by the backend, not yet read from the socket
    peerClosed,       \* the backend closed its end (set when it closes on its own
                      \* account, or when a read first observes that it is gone)
    sockBroken,       \* the socket failed: every further read and write fails
                      \* (set when an I/O call first observes the failure)
    inflight,         \* calls whose frames the backend has not answered yet
    expect,           \* backend messages not yet decoded, with the call they answer
    g,                \* receive() bookkeeping: fault, swallowed, leaked
    absorbedErr,      \* an error Response was absorbed during the operation
    lastRet,          \* the last return of receive(): what, to which call, and
                      \* whether that receive() call had read from the socket
    lastFlush         \* the last flush(): its number and result

vars == << phase, estAddr, estResult, sock, hs, stream_readable, stream_eof, wbuf, rbuf,
           process_id, secret_key, op, pc, ds, nCalls, finRes, outq, wire, peerClosed,
           sockBroken, inflight, expect, g, absorbedErr, lastRet, lastFlush >>

connVars == << stream_readable, stream_eof, rbuf, process_id, secret_key >>
netVars == << outq, wire, peerClosed, sockBroken, inflight >>

NoRet == [ret |-> "never", call |-> -1, read |-> FALSE]

NoFlush == [seq |-> 0, res |-> "never"]

Init ==
    /\ phase = "new" /\ estAddr = [res |-> "none", host |-> "", port |-> 0]
    /\ estResult = "pending" /\ sock = "none" /\ hs = "none"
    /\ stream_readable = FALSE /\ stream_eof = FALSE
    /\ wbuf = <<>> /\ rbuf = <<>> /\ process_id = 0 /\ secret_key = 0
    /\ op = "none" /\ pc = "idle" /\ ds = NewDriver(0) /\ nCalls = 0 /\ finRes = "pending"
    /\ outq = <<>> /\ wire = <<>> /\ peerClosed = FALSE /\ sockBroken = FALSE
    /\ inflight = <<>> /\ expect = <<>>
    /\ g = [fault |-> FALSE, swallowed |-> FALSE, leaked |-> FALSE]
    /\ absorbedErr = FALSE /\ lastRet = NoRet /\ lastFlush = NoFlush

\* When the peer goes away, what it had not sent yet never arrives: of the
\* messages expected, only those with a byte in rbuf are still of interest.
CutExpect ==
    LET covers(k) == Len(BytesOf([i \in 1..k |-> expect[i].msg])) >= Len(rbuf)
        n == CHOOSE k \in 0..Len(expect) :
                 /\ covers(k) \/ k = Len(expect)
                 /\ \A j \in 0..(k - 1) : ~covers(j)
    IN  SubSeq(expect, 1, n)

\* The connection as receive() and the drivers see it.
Conn ==
    [rbuf |-> rbuf, readable |-> stream_readable, eof |-> stream_eof,
     ret |-> "read", msg |-> NoMsg, expect |-> expect, sentHead |-> NoSent, g |-> g,
     absorbedErr |-> absorbedErr, kind |-> op, ds |-> ds,
     pid |-> process_id, key |-> secret_key, pc |-> pc, lastRet |-> lastRet,
     didRead |-> FALSE]

\* Store the connection back; a finished handshake decides establish().
Commit(c) ==
    /\ rbuf' = c.rbuf /\ stream_readable' = c.readable /\ stream_eof' = c.eof
    /\ expect' = c.expect /\ g' = c.g /\ absorbedErr' = c.absorbedErr
    /\ ds' = c.ds /\ process_id' = c.pid /\ secret_key' = c.key
    /\ pc' = c.pc /\ lastRet' = c.lastRet
    /\ IF c.kind = "handshake" /\ c.pc = "done"
       THEN /\ hs' = c.ds.res
            /\ estResult' = HandshakeResult(c.ds.res)
            /\ phase' = IF HandshakeResult(c.ds.res) = "ok" THEN "ready" ELSE "failed"
       ELSE UNCHANGED << phase, estResult, hs >>

\* establish(url): parse, connect, construct, start the handshake.
Establish(url, connectOk) ==
    /\ phase = "new"
    /\ LET a == ParseAddr(url) IN
       /\ estAddr' = a
       /\ IF a.res = "panic"
          THEN /\ phase' = "failed" /\ estResult' = "panic"
               /\ UNCHANGED << sock, wbuf, op, pc >>
          ELSE IF ConnectResult(connectOk) = "io_error"
          THEN /\ phase' = "failed" /\ estResult' = "io_error"
               /\ sock' = IF connectOk THEN "open" ELSE "refused"
               /\ UNCHANGED << wbuf, op, pc >>
          ELSE /\ phase' = "handshake" /\ estResult' = "pending"
               /\ sock' = IF connectOk THEN "open" ELSE "refused"
               /\ wbuf' = Write(<<>>, StartupFrame)
               /\ op' = "handshake"
               /\ pc' = "created"
    /\ UNCHANGED << hs, connVars, ds, nCalls, finRes, netVars, expect, g, absorbedErr,
                    lastRet, lastFlush >>

\* execute / fetch / fetch_optional: finish() at call time, the future or
\* stream is returned unpolled.
Call(kind, query, params) ==
    /\ phase = "ready" /\ pc \in {"idle", "done", "dropped"}
    /\ nCalls < MaxCalls
    /\ wbuf' = Finish(wbuf, query, params, LimitOf(kind))
    /\ op' = kind
    /\ pc' = "created"
    /\ nCalls' = nCalls + 1
    /\ ds' = NewDriver(nCalls + 1)
    /\ inflight' = Append(inflight, nCalls + 1)
    /\ absorbedErr' = FALSE
    /\ UNCHANGED << phase, estAddr, estResult, sock, hs, connVars, finRes, outq, wire,
                    peerClosed, sockBroken, expect, g, lastRet, lastFlush >>

\* First poll of an operation: flush(), then receive() up to its first await.
PollFlush(ioOk) ==
    /\ pc = "created" /\ phase \in {"handshake", "ready"}
    /\ sockBroken => ~ioOk
    /\ sockBroken' = ~ioOk
    /\ LET f == Flush(wbuf, outq, ioOk) IN
       /\ wbuf' = f.wbuf /\ outq' = f.outq
       /\ lastFlush' = [seq |-> lastFlush.seq + 1, res |-> f.res]
       /\ IF f.res = "ok"
          THEN /\ Commit(Drive(Conn))
               /\ wire' = wire
          ELSE /\ Commit([Conn EXCEPT !.pc = "done", !.ds.res = "error",
                                      !.expect = CutExpect])
               /\ wire' = <<>>
    /\ UNCHANGED << estAddr, sock, op, nCalls, finRes, peerClosed, inflight >>

\* The pending socket read completes with n > 0 bytes.
PollReadData(n, spare) ==
    /\ pc = "read" /\ ~sockBroken /\ n \in 1..Len(wire) /\ n <= Reserve(spare)
    /\ wire' = SubSeq(wire, n + 1, Len(wire))
    /\ Commit(Drive(AfterRead(Conn, SubSeq(wire, 1, n))))
    /\ UNCHANGED << estAddr, sock, wbuf, op, nCalls, finRes, outq, peerClosed, sockBroken,
                    inflight, lastFlush >>

\* The pending socket read completes with 0 bytes: the peer closed, either
\* after all it sent was read, or (it died) before it sent what is in wire.
\* A read into a buffer without room would return 0 bytes as well.
PollReadZero(spare) ==
    /\ pc = "read" /\ ~sockBroken
    /\ IF Reserve(spare) = 0
       THEN /\ UNCHANGED << peerClosed, wire >>
            /\ Commit(Drive(AfterRead(Conn, <<>>)))
       ELSE /\ wire # <<>> => ~peerClosed
            /\ peerClosed' = TRUE
            /\ wire' = <<>>
            /\ Commit(Drive(AfterRead([Conn EXCEPT !.expect = CutExpect], <<>>)))
    /\ UNCHANGED << estAddr, sock, wbuf, op, nCalls, finRes, outq, sockBroken,
                    inflight, lastFlush >>

\* The pending socket read fails: receive() returns the error.
PollReadErr ==
    /\ pc = "read"
    /\ sockBroken' = TRUE
    /\ wire' = <<>>
    /\ Commit(DriverOnErr([Conn EXCEPT !.expect = CutExpect]))
    /\ UNCHANGED << estAddr, sock, wbuf, op, nCalls, finRes, outq, peerClosed,
                    inflight, lastFlush >>

\* The caller asks the row stream of fetch for its next element.
StreamNext ==
    /\ pc = "yielded"
    /\ Commit(Drive(Conn))
    /\ UNCHANGED << estAddr, sock, wbuf, op, nCalls, finRes, netVars, lastFlush >>

\* The caller drops the future or stream at a suspension point.
Drop ==
    /\ pc \in {"created", "read", "yielded"} /\ op \in Kinds
    /\ pc' = "dropped"
    /\ UNCHANGED << phase, estAddr, estResult, sock, hs, connVars, wbuf, op, ds, nCalls,
                    finRes, netVars, expect, g, absorbedErr, lastRet, lastFlush >>

\* finalize().
FinalizeConn(ioOk, shutOk) ==
    /\ phase = "ready" /\ pc \in {"idle", "done", "dropped"}
    /\ sockBroken => ~ioOk
    /\ sockBroken' = ~ioOk
    /\ LET r == Finalize(wbuf, outq, ioOk, shutOk) IN
       /\ wbuf' = r.wbuf /\ outq' = r.outq /\ sock' = r.sock /\ finRes' = r.res
       /\ lastFlush' = [seq |-> lastFlush.seq + 1, res |-> r.flush.res]
       /\ wire' = IF r.res = "ok" \/ ~ioOk THEN <<>> ELSE wire
       /\ expect' = IF r.res = "ok" \/ ~ioOk THEN CutExpect ELSE expect
    /\ phase' = "finalized"
    /\ UNCHANGED << estAddr, estResult, hs, connVars, op, pc, ds, nCalls, peerClosed,
                    inflight, g, absorbedErr, lastRet >>

\* ------------------------------------------------------------ environment
BackendUp == sock \in {"open", "shutdown"} /\ ~peerClosed /\ ~sockBroken

\* What the backend sends after shutdown(Both) reaches nobody.
Emit(msgs, owner) ==
    IF sock = "open"
    THEN /\ wire' = wire \o BytesOf(msgs)
         /\ expect' = expect \o Owned(msgs, owner)
    ELSE UNCHANGED << wire, expect >>

\* The backend reads the next request off the socket and answers it.
BackendStartup(accept) ==
    /\ BackendUp /\ outq # <<>> /\ Head(outq).tag = "Startup"
    /\ outq' = Tail(outq)
    /\ Emit(HandshakeAnswer(accept), 0)
    /\ peerClosed' = ~accept
    /\ UNCHANGED << phase, estAddr, estResult, sock, hs, connVars, wbuf, op, pc, ds, nCalls,
                    finRes, sockBroken, inflight, g, absorbedErr, lastRet,
                    lastFlush >>

BackendQuery ==
    /\ BackendUp /\ Len(outq) >= 4 /\ Head(outq).tag = "Parse"
    /\ outq[3].tag = "Execute" /\ inflight # <<>>
    /\ outq' = SubSeq(outq, 5, Len(outq))
    /\ inflight' = Tail(inflight)
    /\ Emit(QueryAnswer(outq[1].query, outq[3].limit), Head(inflight))
    /\ UNCHANGED << phase, estAddr, estResult, sock, hs, connVars, wbuf, op, pc, ds, nCalls,
                    finRes, peerClosed, sockBroken, g, absorbedErr, lastRet,
                    lastFlush >>

BackendTerminate ==
    /\ BackendUp /\ outq # <<>> /\ Head(outq).tag = "Terminate"
    /\ outq' = Tail(outq)
    /\ peerClosed' = TRUE
    /\ UNCHANGED << phase, estAddr, estResult, sock, hs, connVars, wbuf, op, pc, ds, nCalls,
                    finRes, wire, sockBroken, inflight, expect, g, absorbedErr,
                    lastRet, lastFlush >>

\* What was written to a peer that is gone is never read.
BackendGone ==
    /\ sock \in {"open", "shutdown"} /\ (peerClosed \/ sockBroken) /\ outq # <<>>
    /\ outq' = <<>>
    /\ inflight' = <<>>
    /\ UNCHANGED << phase, estAddr, estResult, sock, hs, connVars, wbuf, op, pc, ds, nCalls,
                    finRes, wire, peerClosed, sockBroken, expect, g, absorbedErr,
                    lastRet, lastFlush >>

Next ==
    \/ \E url \in Urls, connectOk \in BOOLEAN : Establish(url, connectOk)
    \/ \E kind \in Kinds, query \in Queries, params \in Params : Call(kind, query, params)
    \/ \E ioOk \in BOOLEAN : PollFlush(ioOk)
    \/ \E n \in 1..Len(wire), spare \in SpareBefore : PollReadData(n, spare)
    \/ \E spare \in SpareBefore : PollReadZero(spare)
    \/ PollReadErr
    \/ StreamNext
    \/ Drop
    \/ \E ioOk, shutOk \in BOOLEAN : FinalizeConn(ioOk, shutOk)
    \/ \E accept \in BOOLEAN : BackendStartup(accept)
    \/ BackendQuery
    \/ BackendTerminate
    \/ BackendGone

Spec == Init /\ [][Next]_vars

\* ============================================================ properties
ExpectMsgs == [i \in 1..Len(expect) |-> expect[i].msg]

QueryOp == op \in Kinds

\* C1: however the backend's byte stream is cut into socket reads, receive()
\* returns the messages that are neither ParameterStatus nor Response, each
\* once and in wire order, and no byte of a message not yet complete is lost:
\* every message decoded is the next one the backend sent, none was absorbed
\* that should have been returned, none returned that should have been
\* absorbed, what is buffered plus what is still on the wire is exactly the
\* bytes of the messages not yet decoded, and at end-of-stream no complete
\* message is left in the buffer.  (Once the connection is finalized, the
\* peer has closed or the socket has failed, the rest of the stream is gone and
\* only the prefix relation remains.)
C1_ReceiveDeliversStream ==
    /\ ~g.fault /\ ~g.swallowed /\ ~g.leaked
    /\ IsPrefix(rbuf \o wire, BytesOf(ExpectMsgs))
    /\ (phase # "finalized" /\ ~peerClosed /\ ~sockBroken
           => rbuf \o wire = BytesOf(ExpectMsgs))
    /\ (stream_eof => ~Decode(rbuf).some)

\* A message of the operation was returned, and the first bytes of the next
\* message are buffered while its rest is still on the wire.
C1_Witness ==
    /\ QueryOp /\ pc = "read" /\ lastRet.ret = "some" /\ lastRet.call = ds.call
    /\ Len(rbuf) \in 1..4 /\ wire # <<>> /\ ~peerClosed

\* C2: once a socket read returned zero bytes, every later receive() call
\* returns none without reading from the socket, and the flag stays set.
C2_EofIsFinal ==
    [][stream_eof =>
          /\ stream_eof'
          /\ pc' # "read"
          /\ (lastRet' # lastRet => lastRet'.ret = "none" /\ ~lastRet'.read)]_vars

\* An operation started after the zero-length read got none from a
\* receive() call that did not touch the socket.
C2_Witness ==
    /\ stream_eof /\ QueryOp /\ pc = "done" /\ nCalls = 2
    /\ lastRet = [ret |-> "none", call |-> 2, read |-> FALSE]

\* C3: every execute, fetch and fetch_optional call appends to the write
\* buffer exactly Parse, Bind, Execute(limit), Sync, in this order, with
\* limit 1 for fetch_optional and 0 otherwise, whatever was buffered before
\* and however many parameters there are.
C3_QueryFrames ==
    [][nCalls' # nCalls =>
          LET new == SubSeq(wbuf', Len(wbuf) + 1, Len(wbuf')) IN
          /\ IsPrefix(wbuf, wbuf')
          /\ Len(new) = 4
          /\ new[1].tag = "Parse" /\ new[2].tag = "Bind"
          /\ new[3].tag = "Execute" /\ new[4].tag = "Sync"
          /\ new[3].limit = (IF op' = "fetch_optional" THEN 1 ELSE 0)]_vars

\* A fetch_optional with parameters, called while the frames of an earlier
\* operation are still buffered.
C3_Witness ==
    /\ pc = "created" /\ op = "fetch_optional" /\ nCalls = 2 /\ Len(wbuf) = 8
    /\ wbuf[6].values = 2 /\ wbuf[7].limit = 1

\* C4: an error Response received during a query operation ends that
\* operation with an error.
C4_ErrorResponseFailsOperation ==
    (QueryOp /\ pc = "done" /\ absorbedErr) => ds.res = "error"

\* C5: an operation starts only when the answers to all earlier operations
\* have been drained, also after a caller abandoned one part-way: the first
\* message an operation receives answers its own query.
C5_NoLeftoverAnswers ==
    (QueryOp /\ ds.first # -1) => ds.first = ds.call

\* C6: a flush() that succeeds leaves the write buffer empty and has put on
\* the socket exactly what the buffer held when it began (for the flush of
\* finalize(): the buffer with Terminate appended).
C6_FlushSendsAll ==
    [][(lastFlush'.seq # lastFlush.seq /\ lastFlush'.res = "ok") =>
          /\ wbuf' = <<>>
          /\ outq' = outq \o (IF phase' = "finalized"
                              THEN Append(wbuf, TerminateFrame) ELSE wbuf)]_vars

\* A flush succeeded that carried the frames of two operations.
C6_Witness ==
    /\ lastFlush.res = "ok" /\ wbuf = <<>> /\ Len(outq) = 8 /\ phase = "ready"

\* C7: finalize() appends Terminate, flushes, and only if the flush
\* succeeded shuts the socket down; a failed flush or shutdown is its result.
C7_FinalizeOrder ==
    [][(phase' = "finalized" /\ phase # "finalized") =>
          /\ lastFlush'.seq = lastFlush.seq + 1
          /\ IF lastFlush'.res = "ok"
             THEN /\ outq' = Append(outq \o wbuf, TerminateFrame)
                  /\ wbuf' = <<>>
                  /\ \/ finRes' = "ok" /\ sock' = "shutdown"
                     \/ finRes' = "shutdown_err" /\ sock' = "open"
             ELSE /\ wbuf' = Append(wbuf, TerminateFrame)
                  /\ outq' = outq
                  /\ finRes' = "flush_err" /\ sock' = "open"]_vars

\* finalize() succeeded: Terminate is the last frame on the socket, behind
\* frames an abandoned operation had left in the buffer.
C7_Witness ==
    /\ phase = "finalized" /\ finRes = "ok" /\ sock = "shutdown"
    /\ Len(outq) = 5 /\ outq[5] = TerminateFrame

\* C8: establish() hands out a connection exactly when the connect and the
\* handshake succeeded; a failed connect or handshake is its error.
C8_EstablishAllOrNothing ==
    /\ phase \in {"ready", "finalized"} <=> estResult = "ok"
    /\ estResult = "ok" => (sock \in {"open", "shutdown"} /\ hs = "ok")
    /\ sock = "refused" => (estResult = "io_error" /\ phase = "failed")
    /\ hs = "error" => (estResult = "handshake_error" /\ phase = "failed")

\* The connect and the handshake succeeded and establish() returned the
\* connection, with the backend's key data stored in it.
C8_Witness ==
    /\ phase = "ready" /\ estResult = "ok" /\ sock = "open" /\ hs = "ok"
    /\ process_id = KeyData.pid /\ secret_key = KeyData.key

\* C9: an address that cannot be parsed or resolved makes establish() return
\* an error value, with no socket activity.
C9_AddressErrorIsReturned ==
    estAddr.res = "panic" => (estResult \in {"io_error", "handshake_error"} /\ sock = "none")

\* C10: when the socket reports end-of-stream to a receive() call made by a
\* query operation that still waits for messages, that call returns an error,
\* not none.
C10_PrematureCloseIsError ==
    (stream_eof /\ QueryOp /\ lastRet.call = ds.call /\ lastRet.read)
        => lastRet.ret = "err"

Unreturned == {"ParameterStatus", "Response"}

\* How many of the messages at the head of e receive() is to consume
\* without returning them.
LeadingUnreturned(e) ==
    CHOOSE k \in 0..Len(e) :
        /\ \A i \in 1..k : e[i].msg.kind \in Unreturned
        /\ k < Len(e) => e[k + 1].msg.kind \notin Unreturned

\* C11: whatever the pending socket read brings, the receive() call that
\* resumes never returns a ParameterStatus (nor a Response): it consumes
\* those at the head of the stream and goes on, and it returns the first
\* message of another kind at once, with everything behind that message
\* still undecoded in the buffer or unread on the socket.
C11_ParameterStatusAbsorbed ==
    (pc = "read" /\ phase \in {"handshake", "ready"} /\ ~peerClosed /\ ~sockBroken) =>
        \A n \in 1..Len(wire) :
            LET r == ReceiveTop(AfterRead(Conn, SubSeq(wire, 1, n)))
                k == LeadingUnreturned(expect)
            IN  IF r.ret = "some"
                THEN /\ r.msg.kind \notin Unreturned
                     /\ k < Len(expect)
                     /\ r.msg = expect[k + 1].msg
                     /\ r.expect = SubSeq(expect, k + 2, Len(expect))
                     /\ r.rbuf \o SubSeq(wire, n + 1, Len(wire))
                            = BytesOf([i \in 1..Len(r.expect) |-> r.expect[i].msg])
                ELSE /\ r.ret = "read"
                     /\ ~Decode(r.rbuf).some
                     /\ Len(expect) - Len(r.expect) <= k

\* The handshake waits for the rest of ReadyForQuery: the ParameterStatus
\* and the notice before BackendKeyData were consumed, BackendKeyData was
\* returned and its contents stored.
C11_Witness ==
    /\ phase = "handshake" /\ pc = "read" /\ process_id = KeyData.pid
    /\ lastRet.ret = "some" /\ lastRet.call = 0
    /\ Len(expect) = 1 /\ expect[1].msg.kind = "ReadyForQuery" /\ rbuf # <<>>

\* C12: the write() calls of an entry point only append to the write
\* buffer: what was buffered stays in front, nothing is put on or taken off
\* the socket, and the socket, rbuf, stream_readable, stream_eof, process_id
\* and secret_key are left as they were.
C12_WriteOnlyAppends ==
    [][nCalls' # nCalls =>
          /\ Len(wbuf') > Len(wbuf)
          /\ SubSeq(wbuf', 1, Len(wbuf)) = wbuf
          /\ UNCHANGED << sock, rbuf, stream_readable, stream_eof, process_id,
                          secret_key, outq, wire, peerClosed, sockBroken >>]_vars

\* Frames were written behind the frames an unpolled operation had left, on
\* a connection whose fields the handshake had set.
C12_Witness ==
    /\ QueryOp /\ pc = "created" /\ Len(wbuf) = 8
    /\ wbuf[1].tag = "Parse" /\ wbuf[4].tag = "Sync" /\ wbuf[5].tag = "Parse"
    /\ stream_readable /\ process_id = KeyData.pid /\ secret_key = KeyData.key
    /\ outq = <<>> /\ sock = "open"

\* The rows the backend sent in answer to the operation in progress that
\* receive() has not decoded yet.
OwnRowsAhead ==
    Cardinality({i \in 1..Len(expect) :
                    expect[i].owner = ds.call /\ expect[i].msg.kind = "DataRow"})

\* C13: to the frames of a fetch_optional the backend answers with at most
\* one row, however many rows the query has (Execute carries limit 1), and
\* fetch_optional hands at most one row to its caller.
C13_FetchOptionalOneRow ==
    op = "fetch_optional" => (OwnRowsAhead <= 1 /\ ds.rows <= 1)

\* A fetch_optional of a query with more rows than one got its row; the
\* backend stopped there and reported the portal suspended.
C13_Witness ==
    /\ op = "fetch_optional" /\ pc = "read" /\ ds.rows = 1 /\ ds.first = ds.call
    /\ expect # <<>> /\ expect[1].owner = ds.call
    /\ expect[1].msg.kind = "PortalSuspended"

\* C14: while receive() waits for its socket read, stream_readable is
\* clear: either it was never set, or the decode attempt that found no
\* complete message cleared it before falling through to the refill.
C14_ReadableClearedOnNone ==
    pc = "read" => ~stream_readable

\* C15: whatever room rbuf has when receive() comes to its socket read,
\* after reserve(32) at least 32 bytes are spare, so a read of 0 bytes
\* means that the peer closed; stream_eof is set by such a read only: by a
\* pending read that added nothing to rbuf, on a closed stream.
C15_EofOnlyOnPeerClose ==
    [][/\ \A spare \in SpareBefore :
              Reserve(spare) >= ReadHeadroom /\ Reserve(spare) >= spare
       /\ (~stream_eof /\ stream_eof') =>
              (pc = "read" /\ rbuf' = rbuf /\ peerClosed')]_vars

\* A read of 0 bytes ended the stream inside a message: the receive() call
\* that read returned none, the bytes read before are still in rbuf.
C15_Witness ==
    /\ stream_eof /\ peerClosed /\ Len(rbuf) \in 1..4
    /\ lastRet.ret = "none" /\ lastRet.read

\* The last four frames of the write buffer are Parse, Bind, Execute, Sync.
FramesAtEnd(buf) ==
    /\ Len(buf) >= 4
    /\ buf[Len(buf) - 3].tag = "Parse" /\ buf[Len(buf) - 2].tag = "Bind"
    /\ buf[Len(buf) - 1].tag = "Execute" /\ buf[Len(buf)].tag = "Sync"

\* C16: execute, fetch and fetch_optional put their four frames into the
\* write buffer in the call itself, which returns the future or stream
\* unpolled and does no socket I/O (no flush, no read); until the first poll
\* the frames are the end of the write buffer, and dropping the operation
\* before its first poll leaves them there.
C16_FramesWrittenAtCall ==
    [][/\ nCalls' # nCalls =>
              /\ pc' = "created" /\ FramesAtEnd(wbuf') /\ Len(wbuf') = Len(wbuf) + 4
              /\ UNCHANGED << outq, wire, rbuf, lastFlush, lastRet, sockBroken >>
       /\ (QueryOp /\ pc = "created") => FramesAtEnd(wbuf)
       /\ (QueryOp /\ pc = "created" /\ pc' = "dropped") =>
              (wbuf' = wbuf /\ outq' = outq /\ lastFlush' = lastFlush)]_vars

\* The only operation called was dropped before its first poll: its frames
\* are in the write buffer, nothing but the handshake was ever flushed.
C16_Witness ==
    /\ QueryOp /\ pc = "dropped" /\ nCalls = 1 /\ lastFlush.seq = 1
    /\ Len(wbuf) = 4 /\ FramesAtEnd(wbuf) /\ outq = <<>>

\* C17: a flush() that fails leaves the write buffer as it was when the
\* flush began (in finalize(): with Terminate appended); the frames stay
\* buffered, and frames written later are put behind them.
C17_FailedFlushKeepsBuffer ==
    [][/\ (lastFlush'.seq # lastFlush.seq /\ lastFlush'.res = "err") =>
              /\ wbuf' = (IF phase' = "finalized"
                          THEN Append(wbuf, TerminateFrame) ELSE wbuf)
              /\ wbuf' # <<>>
       /\ (lastFlush.res = "err" /\ nCalls' # nCalls) =>
              /\ wbuf # <<>>
              /\ Len(wbuf') = Len(wbuf) + 4
              /\ SubSeq(wbuf', 1, Len(wbuf)) = wbuf]_vars

\* The flush of the first operation failed; the second operation's frames
\* were written behind the first one's.
C17_Witness ==
    /\ lastFlush.res = "err" /\ nCalls = 2 /\ pc = "created"
    /\ Len(wbuf) = 8 /\ wbuf[1].tag = "Parse" /\ wbuf[5].tag = "Parse"
    /\ phase = "ready" /\ sockBroken

\* C18: receive() goes to its socket read only when no complete message is
\* at the front of rbuf, so when stream_eof gets set, and ever after, the
\* return of none at the top of receive() leaves no received message behind.
C18_NoMessageHiddenAtEof ==
    (pc = "read" \/ stream_eof) => ~Decode(rbuf).some

\* The stream ended after the operation had received a message of its own
\* and the header, but not the payload, of the next one.
C18_Witness ==
    /\ stream_eof /\ QueryOp /\ pc = "done" /\ ds.first = ds.call
    /\ Len(rbuf) = 5 /\ lastRet.ret = "none"

\* C19: the parameter count of every Bind frame written is the number of
\* parameter types the caller supplied, the number the Parse frame before
\* it carries.
C19_BindCountExact ==
    \A i \in 2..Len(wbuf) :
        wbuf[i].tag = "Bind" => wbuf[i].values_len = wbuf[i - 1].param_types

====
